---------------------------- MODULE Spec2Model ----------------------------
(***************************************************************************)
(* Calculadora de Retencion (UF -> CLP), src/app_rete.py.                  *)
(*                                                                         *)
(* The Streamlit script is re-run from top to bottom on every page         *)
(* evaluation.  Three specifications are given over one set of variables:  *)
(*   SpecToken  the token codec, make_flash_token / verify_flash_token;    *)
(*   Spec       one session's page evaluations (role, ?flash handling,     *)
(*              resolution of TOPES_ACTIVOS, the mint panel, the totals);  *)
(*   SpecCalc   parse_num and the discount computation on text inputs.     *)
(*                                                                         *)
(* Representation.                                                         *)
(*   bytes / characters  integers 0..255 (ASCII codes), strings are        *)
(*                       sequences of them;                                *)
(*   time.time()         now + nowFrac/2 seconds (nowFrac \in {0,1});      *)
(*   ceilings            fractions in thousandths (0.25 is 250);           *)
(*   money               exact, in thousandths of a CLP;                   *)
(*   HMAC-SHA256         an ideal MAC: the table hmac holds the tag of     *)
(*                       every message signed so far, each tag chosen      *)
(*                       nondeterministically and without collisions; the  *)
(*                       tag of any other message matches no given bytes.  *)
(***************************************************************************)
EXTENDS Integers, Sequences, FiniteSets, TLC

VARIABLES now, nowFrac, nTicks, hmac, minted, user_admin, session_state, vr, ev, calc

vars == <<now, nowFrac, nTicks, hmac, minted, user_admin, session_state, vr, ev, calc>>

(***************************************************************************)
(* Bounds of the model.                                                    *)
(***************************************************************************)
MaxTicks == 5
MaxPageTicks == 2
MaxMints == 1

(***************************************************************************)
(* Program constants.                                                      *)
(***************************************************************************)
T0 == 1700000000
SecondsPerHour == 3600
DigestSize == 32
PctDivisor == 100
MaxPct == 80
IvaPct == 19
UF_FALLBACK == 39315

None == "None"
EmptyDict == [k \in {} |-> None]

\* dict.get(key, default), d[key] = value and d.update(u).
Get(d, key, default) == IF key \in DOMAIN d THEN d[key] ELSE default
SetKey(d, key, value) == [k \in DOMAIN d \cup {key} |-> IF k = key THEN value ELSE d[k]]
Update(d, u) == [k \in DOMAIN d \cup DOMAIN u |-> IF k \in DOMAIN u THEN u[k] ELSE d[k]]

(***************************************************************************)
(* Generic helpers on sequences of bytes.                                  *)
(***************************************************************************)
Min(a, b) == IF b < a THEN b ELSE a
Max(a, b) == IF b > a THEN b ELSE a

RECURSIVE DecStr(_)
\* str(n) / json's integer rendering of a natural number, as ASCII digits.
DecStr(n) == IF n < 10 THEN <<48 + n>> ELSE DecStr(n \div 10) \o <<48 + (n % 10)>>

\* The greatest i with s[i] = b, or 0.
LastIndexOf(s, b) ==
    LET at == {i \in 1..Len(s) : s[i] = b} IN
    IF at = {} THEN 0 ELSE CHOOSE i \in at : \A j \in at : j <= i

IsDigit(c) == c >= 48 /\ c <= 57

(***************************************************************************)
(* base64.urlsafe_b64encode / urlsafe_b64decode (lines 102, 106).          *)
(***************************************************************************)
B64Char(v) ==
    IF v < 26 THEN 65 + v
    ELSE IF v < 52 THEN 97 + (v - 26)
    ELSE IF v < 62 THEN 48 + (v - 52)
    ELSE IF v = 62 THEN 45      \* '-' (the urlsafe translation of '+')
    ELSE 95                     \* '_' (the urlsafe translation of '/')

\* The decoder's table after the urlsafe translation of '-' and '_': both the
\* urlsafe and the standard characters carry a value; 64 marks a character
\* outside the alphabet.
B64Val(c) ==
    IF c >= 65 /\ c <= 90 THEN c - 65
    ELSE IF c >= 97 /\ c <= 122 THEN c - 97 + 26
    ELSE IF c >= 48 /\ c <= 57 THEN c - 48 + 52
    ELSE IF c = 45 \/ c = 43 THEN 62
    ELSE IF c = 95 \/ c = 47 THEN 63
    ELSE 64

\* Byte i of data, 0 past its end.
ByteAt(data, i) == IF i <= Len(data) THEN data[i] ELSE 0

\* Character k of the encoding: every 3 bytes give 4 characters, and a last
\* group of 1 or 2 bytes is padded with '='.
B64EncChar(data, k) ==
    LET g == (k - 1) \div 4
        r == (k - 1) % 4
        b0 == ByteAt(data, 3 * g + 1)
        b1 == ByteAt(data, 3 * g + 2)
        b2 == ByteAt(data, 3 * g + 3)
    IN CASE r = 0 -> B64Char(b0 \div 4)
         [] r = 1 -> B64Char((b0 % 4) * 16 + b1 \div 16)
         [] r = 2 -> IF 3 * g + 2 > Len(data) THEN 61
                     ELSE B64Char((b1 % 16) * 4 + b2 \div 64)
         [] OTHER -> IF 3 * g + 3 > Len(data) THEN 61 ELSE B64Char(b2 % 64)

urlsafe_b64encode(data) ==
    [k \in 1..(4 * ((Len(data) + 2) \div 3)) |-> B64EncChar(data, k)]

Incorrect_padding == "Incorrect padding"
Invalid_base64 == "Invalid base64-encoded string"

IsB64Alpha(c) == B64Val(c) < 64

\* binascii.a2b_base64 in its default (non-strict) mode.  Characters outside
\* the alphabet are skipped.  quad_pos is the number of alphabet characters
\* read so far, modulo 4; a '=' read at quad_pos 3, or the second '=' of a run
\* read at quad_pos 2, completes the padding and ends the parse there: what
\* follows is not read and the bits left over in the last character are
\* dropped.  Input that ends inside a quad is an error.
QuadPosBefore(s, i) == Cardinality({j \in 1..(i - 1) : IsB64Alpha(s[j])}) % 4

PadStops(s) ==
    { i \in 1..Len(s) :
        /\ s[i] = 61
        /\ \/ QuadPosBefore(s, i) = 3
           \/ /\ QuadPosBefore(s, i) = 2
              /\ \E j \in 1..(i - 1) :
                    /\ s[j] = 61
                    /\ \A k \in (j + 1)..(i - 1) : ~IsB64Alpha(s[k]) }

\* Byte j of the decoding of the 6-bit values v.
B64DecByte(v, j) ==
    LET g == (j - 1) \div 3
        r == (j - 1) % 3
    IN CASE r = 0 -> v[4 * g + 1] * 4 + v[4 * g + 2] \div 16
         [] r = 1 -> (v[4 * g + 2] % 16) * 16 + v[4 * g + 3] \div 4
         [] OTHER -> (v[4 * g + 3] % 4) * 64 + v[4 * g + 4]

\* The bytes of the 6-bit values v; stopped tells that a pad sequence ended
\* the parse.
A2BBytes(v, stopped) ==
    LET quad_pos == Len(v) % 4 IN
    IF ~stopped /\ quad_pos = 1 THEN [ok |-> FALSE, err |-> Invalid_base64]
    ELSE IF ~stopped /\ quad_pos # 0 THEN [ok |-> FALSE, err |-> Incorrect_padding]
    ELSE [ok |-> TRUE,
          data |-> [j \in 1..(3 * (Len(v) \div 4)
                               + (IF quad_pos >= 2 THEN quad_pos - 1 ELSE 0))
                      |-> B64DecByte(v, j)]]

A2BValues(read) == [k \in 1..Len(read) |-> B64Val(read[k])]

A2BUpTo(s, stops) ==
    A2BBytes(A2BValues(SelectSeq(
                 SubSeq(s, 1, IF stops = {} THEN Len(s)
                              ELSE (CHOOSE i \in stops : \A j \in stops : i <= j) - 1),
                 IsB64Alpha)),
             stops # {})

a2b_base64(s) == A2BUpTo(s, PadStops(s))

urlsafe_b64decode(token) == a2b_base64(token)

(***************************************************************************)
(* json.dumps(payload, separators=(",", ":")) and json.loads (lines 100,   *)
(* 111).  The percentages are floats with an integral value (the           *)
(* number_input step is 1.0), rendered by repr as <digits>.0               *)
(***************************************************************************)
FloatRepr(pct) == DecStr(pct) \o <<46, 48>>

\* {"exp":E,"n1":N,"tel":T,"v":1}
json_dumps(payload) ==
    <<123, 34, 101, 120, 112, 34, 58>> \o DecStr(payload.exp)
    \o <<44, 34, 110, 49, 34, 58>> \o FloatRepr(payload.n1)
    \o <<44, 34, 116, 101, 108, 34, 58>> \o FloatRepr(payload.tel)
    \o <<44, 34, 118, 34, 58>> \o DecStr(payload.v) \o <<125>>

RECURSIVE ScanDigits(_, _, _)
\* Reads the digits of s from position i on: [val, next].
ScanDigits(s, i, acc) ==
    IF i <= Len(s) /\ IsDigit(s[i]) THEN ScanDigits(s, i + 1, acc * 10 + (s[i] - 48))
    ELSE [val |-> acc, next |-> i]

\* A JSON number at position i: an integer, or a float whose fraction digits
\* are read too; [ok, val, frac, next].
ScanNumber(s, i) ==
    IF ~(i <= Len(s) /\ IsDigit(s[i])) THEN [ok |-> FALSE, val |-> 0, frac |-> 0, next |-> i]
    ELSE LET a == ScanDigits(s, i, 0) IN
         IF a.next <= Len(s) /\ s[a.next] = 46
         THEN IF a.next + 1 <= Len(s) /\ IsDigit(s[a.next + 1])
              THEN LET f == ScanDigits(s, a.next + 1, 0) IN
                   [ok |-> TRUE, val |-> a.val, frac |-> f.val, next |-> f.next]
              ELSE [ok |-> FALSE, val |-> 0, frac |-> 0, next |-> a.next]
         ELSE [ok |-> TRUE, val |-> a.val, frac |-> 0, next |-> a.next]

RECURSIVE ScanKey(_, _, _)
\* The characters of a JSON string from position i up to its closing quote.
ScanKey(s, i, acc) ==
    IF i > Len(s) THEN [ok |-> FALSE, key |-> acc, next |-> i]
    ELSE IF s[i] = 34 THEN [ok |-> TRUE, key |-> acc, next |-> i + 1]
    ELSE ScanKey(s, i + 1, Append(acc, s[i]))

KeyName(k) ==
    CASE k = <<101, 120, 112>> -> "exp"
      [] k = <<110, 49>> -> "n1"
      [] k = <<116, 101, 108>> -> "tel"
      [] k = <<118>> -> "v"
      [] OTHER -> "other"

JsonError == [ok |-> FALSE, err |-> "Expecting value"]

RECURSIVE ScanMembers(_, _, _)
\* "key":number members separated by ',' and closed by '}' at the end of s.
ScanMembers(s, i, acc) ==
    IF ~(i <= Len(s) /\ s[i] = 34) THEN JsonError
    ELSE LET k == ScanKey(s, i + 1, <<>>) IN
         IF ~k.ok \/ ~(k.next <= Len(s) /\ s[k.next] = 58) THEN JsonError
         ELSE LET v == ScanNumber(s, k.next + 1)
                  acc2 == [f \in DOMAIN acc \cup {KeyName(k.key)} |->
                             IF f = KeyName(k.key) THEN v.val ELSE acc[f]]
              IN IF ~v.ok \/ v.frac # 0 \/ v.next > Len(s) THEN JsonError
                 ELSE IF s[v.next] = 44 THEN ScanMembers(s, v.next + 1, acc2)
                 ELSE IF s[v.next] = 125 /\ v.next = Len(s)
                      THEN [ok |-> TRUE, payload |-> acc2]
                 ELSE JsonError

json_loads(msg) ==
    IF Len(msg) >= 2 /\ msg[1] = 123
    THEN ScanMembers(msg, 2, EmptyDict)
    ELSE JsonError

(***************************************************************************)
(* hmac.new(TOKEN_KEY, msg, sha256).digest() (lines 101, 108).             *)
(* Tags are DigestSize bytes.  The values a fresh tag is drawn from cover  *)
(* every residue of the separator byte '.' (46) inside the tag.            *)
(***************************************************************************)
TagFill(i) == 128 + ((i * 7) % 100)

TagWith(p, b) == [i \in 1..DigestSize |-> IF i = p THEN b ELSE TagFill(i)]

TagValues ==
    {TagWith(p, b) : p \in {1, DigestSize}, b \in {46, 65}}

HmacSigned(msg) == msg \in DOMAIN hmac

\* hmac.compare_digest(sig, expected) with expected = HMAC(key, msg): the tag
\* of a message that was never signed is matched by no bytes at hand.
compare_digest(sig, msg) == HmacSigned(msg) /\ sig = hmac[msg]

(***************************************************************************)
(* time.time(): now + nowFrac/2.  Comparisons of an integer with the clock.*)
(***************************************************************************)
NoVerify == [kind |-> "none"]
NoEval == [kind |-> "none"]
NoCalc == [kind |-> "none"]

\* x < time.time()
LessThanTime(x, t, tf) == x < t \/ (x = t /\ tf = 1)
\* x > time.time()
GreaterThanTime(x, t, tf) == x > t

(***************************************************************************)
(* make_flash_token (lines 92-102).  tag is the HMAC of the message: the   *)
(* table's entry when the message was signed before, a fresh value         *)
(* otherwise.                                                              *)
(***************************************************************************)
TokenPayload(hours, n1_pct, tel_pct, t) ==
    [exp |-> t + hours * SecondsPerHour, n1 |-> n1_pct, tel |-> tel_pct, v |-> 1]

TokenBytes(msg, sig) == msg \o <<46>> \o sig

make_flash_token(hours, n1_pct, tel_pct, t, tag) ==
    LET payload == TokenPayload(hours, n1_pct, tel_pct, t)
        msg == json_dumps(payload)
        sig == IF HmacSigned(msg) THEN hmac[msg] ELSE tag
    IN [token |-> urlsafe_b64encode(TokenBytes(msg, sig)),
        msg |-> msg, sig |-> sig, payload |-> payload,
        hours |-> hours, at |-> t, atFrac |-> 0]

\* The tags a message may get: its own when it was signed before, else any
\* value no other message has (no collisions).
FreshTags(msg) ==
    IF HmacSigned(msg) THEN {hmac[msg]}
    ELSE {g \in TagValues : \A m \in DOMAIN hmac : hmac[m] # g}

HmacSign(msg, sig) == [m \in DOMAIN hmac \cup {msg} |-> IF m = msg THEN sig ELSE hmac[m]]

(***************************************************************************)
(* verify_flash_token (lines 104-116): [ok, payload], payload being the    *)
(* error text on failure.                                                  *)
(***************************************************************************)
Firma_invalida == "Firma invalida"
Token_vencido == "Token vencido"
Unpack_error == "not enough values to unpack (expected 2, got 1)"

\* data.rsplit(b".", 1): the position of the last '.', 0 when there is none.
RSplitAt(data) == LastIndexOf(data, 46)

\* Lines 111-114, on the parsed message.
VerifyPayload(p, t, tf) ==
    IF ~p.ok THEN [ok |-> FALSE, payload |-> p.err]
    ELSE IF LessThanTime(Get(p.payload, "exp", 0), t, tf)
         THEN [ok |-> FALSE, payload |-> Token_vencido]
         ELSE [ok |-> TRUE, payload |-> p.payload]

\* Lines 108-110.
VerifySigned(msg, sig, t, tf) ==
    IF ~compare_digest(sig, msg) THEN [ok |-> FALSE, payload |-> Firma_invalida]
    ELSE VerifyPayload(json_loads(msg), t, tf)

\* Line 107: msg, sig = data.rsplit(b".", 1), k the place of the split.
VerifySplit(data, k, t, tf) ==
    IF k = 0 THEN [ok |-> FALSE, payload |-> Unpack_error]
    ELSE VerifySigned(SubSeq(data, 1, k - 1), SubSeq(data, k + 1, Len(data)), t, tf)

VerifyDecoded(d, t, tf) ==
    IF ~d.ok THEN [ok |-> FALSE, payload |-> d.err]
    ELSE VerifySplit(d.data, RSplitAt(d.data), t, tf)

verify_flash_token(token, t, tf) == VerifyDecoded(urlsafe_b64decode(token), t, tf)

(***************************************************************************)
(* The clock.                                                              *)
(***************************************************************************)
\* The clock advances by whole seconds from an initial reading that is either
\* a whole second or half a second past one.  vr and ev are what was observed
\* at the current reading: they are cleared when the clock moves.
TickSteps == {1, SecondsPerHour - 1}

Tick(d, max) ==
    /\ nTicks < max
    /\ nTicks' = nTicks + 1
    /\ now' = now + d
    /\ vr' = NoVerify
    /\ ev' = NoEval
    /\ UNCHANGED <<nowFrac, hmac, minted, user_admin, session_state, calc>>

(***************************************************************************)
(* SpecToken: one token is minted and then presented, as minted or with    *)
(* one character of the token string changed, at any later time.           *)
(***************************************************************************)
HourValues == {1, 2}
PctPairs == { <<0, 80>>, <<30, 50>> }

\* Positions of the token string that are changed: the first and a middle
\* character of the payload portion, the first character that holds only
\* signature bits, and the last character before the padding.
LastDataChar(token) ==
    IF token[Len(token)] # 61 THEN Len(token)
    ELSE IF token[Len(token) - 1] # 61 THEN Len(token) - 1
    ELSE Len(token) - 2

\* The characters of the token that hold bits of bytes lo..hi of the n encoded
\* bytes and of no other byte (the last character may also hold padding bits).
CharsWithin(token, lo, hi, n) ==
    { i \in 1..LastDataChar(token) :
        /\ ((6 * (i - 1)) \div 8) + 1 >= lo
        /\ Min(((6 * i - 1) \div 8) + 1, n) <= hi }

\* The first character that holds no bit of a byte before byte lo.
FirstCharFrom(lo) == ((8 * (lo - 1) + 5) \div 6) + 1

PayloadChars(m) == CharsWithin(m.token, 1, Len(m.msg), Len(m.msg) + 1 + DigestSize)
SignatureChars(m) ==
    CharsWithin(m.token, Len(m.msg) + 2, Len(m.msg) + 1 + DigestSize,
                Len(m.msg) + 1 + DigestSize)

TamperPositions(m) ==
    {1, 20, FirstCharFrom(Len(m.msg) + 2), LastDataChar(m.token)}

\* The characters put in place of token[i]: the next value of the alphabet, a
\* value far away, the standard alphabet's '+', a character outside
\* the alphabet and the pad.
TamperChars(token, i) ==
    ({B64Char((B64Val(token[i]) + 1) % 64), B64Char((B64Val(token[i]) + 32) % 64),
      43, 33, 61}) \ {token[i]}

InitCommon ==
    /\ now = T0
    /\ nowFrac \in {0, 1}
    /\ nTicks = 0
    /\ hmac = EmptyDict
    /\ minted = {}
    /\ vr = NoVerify

TokMint(hours, pcts, tag) ==
    /\ minted = {}
    /\ LET m == make_flash_token(hours, pcts[1], pcts[2], now, tag) IN
       /\ tag \in FreshTags(m.msg)
       /\ minted' = minted \cup {[m EXCEPT !.atFrac = nowFrac]}
       /\ hmac' = HmacSign(m.msg, m.sig)
    /\ UNCHANGED <<now, nowFrac, nTicks, user_admin, session_state, vr, ev, calc>>

\* A reading of the clock serves one call.
TokVerify(m) ==
    /\ vr = NoVerify
    /\ vr' = [kind |-> "verify", src |-> m, token |-> m.token, pos |-> 0,
              t |-> now, tf |-> nowFrac,
              res |-> verify_flash_token(m.token, now, nowFrac)]
    /\ UNCHANGED <<now, nowFrac, nTicks, hmac, minted, user_admin, session_state, ev, calc>>

TokTamper(m, i, c) ==
    /\ vr = NoVerify
    /\ vr' = [kind |-> "tamper", src |-> m, token |-> [m.token EXCEPT ![i] = c],
              pos |-> i, t |-> now, tf |-> nowFrac,
              res |-> verify_flash_token([m.token EXCEPT ![i] = c], now, nowFrac)]
    /\ UNCHANGED <<now, nowFrac, nTicks, hmac, minted, user_admin, session_state, ev, calc>>

InitToken ==
    /\ InitCommon
    /\ user_admin = FALSE
    /\ session_state = EmptyDict
    /\ ev = NoEval
    /\ calc = NoCalc

NextToken ==
    \/ \E h \in HourValues, p \in PctPairs, g \in TagValues : TokMint(h, p, g)
    \/ \E m \in minted : TokVerify(m)
    \/ \E m \in minted : \E i \in TamperPositions(m) :
          \E c \in TamperChars(m.token, i) : TokTamper(m, i, c)
    \/ \E d \in TickSteps : minted # {} /\ Tick(d, MaxTicks)

SpecToken == InitToken /\ [][NextToken]_vars

(***************************************************************************)
(* parse_num (lines 22-35) on the text of an input box.  A number is held  *)
(* in hundredths (1,42 is 142); the texts of the model have at most two    *)
(* decimals.                                                               *)
(***************************************************************************)
\* s.strip()
Strip(s) ==
    LET keep == {i \in 1..Len(s) : s[i] # 32} IN
    IF keep = {} THEN <<>>
    ELSE SubSeq(s, CHOOSE i \in keep : \A j \in keep : i <= j,
                   CHOOSE i \in keep : \A j \in keep : j <= i)

NotDot(c) == c # 46

\* s.replace(".", "").replace(",", ".")
Normalise(s) ==
    LET t == SelectSeq(s, NotDot) IN [i \in 1..Len(t) |-> IF t[i] = 44 THEN 46 ELSE t[i]]

\* Digit i of the fraction, 0 past its end.
FracDigit(fp, i) == IF i <= Len(fp) THEN fp[i] - 48 ELSE 0

\* float(s) for a text of signs, digits and '.': [ok, val], val in hundredths.
\* float raises ValueError unless s is an optional sign followed by digits
\* with at most one '.' among them.
ParseFloatBody(body, neg, dots) ==
    IF \/ Len(body) = 0
       \/ \E i \in 1..Len(body) : ~IsDigit(body[i]) /\ body[i] # 46
       \/ Cardinality(dots) > 1
       \/ ~\E i \in 1..Len(body) : IsDigit(body[i])
    THEN [ok |-> FALSE, val |-> 0]
    ELSE LET dot == IF dots = {} THEN Len(body) + 1 ELSE CHOOSE i \in dots : TRUE
             ip == SubSeq(body, 1, dot - 1)
             fp == SubSeq(body, dot + 1, Len(body))
             mag == ScanDigits(ip, 1, 0).val * 100 + FracDigit(fp, 1) * 10 + FracDigit(fp, 2)
         IN [ok |-> TRUE, val |-> IF neg THEN -mag ELSE mag]

ParseFloatSigned(s, body) ==
    ParseFloatBody(body, Len(s) > 0 /\ s[1] = 45, {i \in 1..Len(body) : body[i] = 46})

ParseFloat(s) ==
    ParseFloatSigned(s, IF Len(s) > 0 /\ s[1] \in {43, 45} THEN Tail(s) ELSE s)

ParseNumResult(f, default) == IF f.ok THEN f.val ELSE default

parse_num(s, default) == ParseNumResult(ParseFloat(Normalise(Strip(s))), default)

\* int(x) of a number in hundredths: truncation towards zero.
IntOf(x) == IF x >= 0 THEN x \div 100 ELSE -((-x) \div 100)

\* Lines 251-254.
Cantidad(cant_txt) == Max(IntOf(parse_num(cant_txt, 100)), 1)

(***************************************************************************)
(* The computation (lines 259-282).  Money is held in ten-thousandths of a *)
(* CLP: the product of a price in hundredths of a UF and a rate in         *)
(* hundredths of a CLP.  x * n / d is taken exactly, rounded down to that  *)
(* unit.                                                                   *)
(***************************************************************************)
MulDiv(x, n, d) == (x \div d) * n + ((x % d) * n) \div d

TOPES_BASE == ("Nivel 1" :> 250) @@ ("Telecierre" :> 400)

Niveles == {"Nivel 1", "Telecierre"}

\* Mutant of Totales: the requested amount is applied without the cap.
TotalesSinTope(subtotal, monto_descuento_ing, monto_tope) ==
    [subtotal |-> subtotal,
     monto_descuento_ing |-> monto_descuento_ing,
     monto_tope |-> monto_tope,
     excede_tope |-> monto_descuento_ing > monto_tope,
     monto_aplicado |-> monto_descuento_ing,
     TotalCLP |-> Max(subtotal - monto_descuento_ing, 0)]

Totales(subtotal, monto_descuento_ing, monto_tope) ==
    [subtotal |-> subtotal,
     monto_descuento_ing |-> monto_descuento_ing,
     monto_tope |-> monto_tope,
     excede_tope |-> monto_descuento_ing > monto_tope,
     monto_aplicado |-> Min(monto_descuento_ing, monto_tope),
     TotalCLP |-> Max(subtotal - Min(monto_descuento_ing, monto_tope), 0)]

\* Mutant of Subtotal: the subtotal without IVA.
SubtotalSinIva(neto) == neto

\* subtotal = neto + neto * IVA_RATE
Subtotal(neto) == neto + MulDiv(neto, IvaPct, 100)

\* monto_tope = subtotal * max_desc
MontoTope(subtotal, max_desc) == MulDiv(subtotal, max_desc, 1000)

Calcular(max_desc, uf_valor, precio_uf, monto_descuento_ing, cantidad) ==
    Totales(Subtotal(precio_uf * uf_valor * cantidad),
            monto_descuento_ing * 100,
            MontoTope(Subtotal(precio_uf * uf_valor * cantidad), max_desc))

\* Lines 229 and 249-254 followed by the computation, on the texts of the
\* four input boxes; uf_api is the rate the box was preloaded with.
CalcularTextos(max_desc, uf_api, txt) ==
    Calcular(max_desc,
             parse_num(txt.uf, uf_api * 100),
             parse_num(txt.precio, 0),
             parse_num(txt.monto, 0),
             Cantidad(txt.cant))

(***************************************************************************)
(* SpecCalc: the computation on every combination of the texts below, for  *)
(* every ceiling of CeilingValues.                                         *)
(***************************************************************************)
UfTexts == { <<51, 57, 48, 48, 48>>,              \* 39000
             <<51, 57, 46, 51, 49, 53>>,          \* 39.315
             <<97, 98, 99>> }                     \* abc
PrecioTexts == { <<49, 44, 52, 50>>,              \* 1,42
                 <<32, 49, 44, 52, 48, 32>>,      \* " 1,40 "
                 <<48>> }                         \* 0
MontoTexts == { <<56, 48, 48, 48>>,               \* 8000
                <<50, 48, 46, 48, 48, 48>>,       \* 20.000
                <<45, 53, 48, 48, 48>>,           \* -5000
                <<48>>,                           \* 0
                <<49, 50, 44, 53, 44, 48>> }      \* 12,5,0
CantTexts == { <<49>>,                            \* 1
               <<50>>,                            \* 2
               <<48>>,                            \* 0
               <<45, 50>>,                        \* -2
               <<>> }                             \* (empty)
UfApiValues == {UF_FALLBACK, 39000}
CeilingValues == {0, 250, 300, 400, 800}

InitCalc ==
    /\ InitCommon
    /\ user_admin = FALSE
    /\ session_state = EmptyDict
    /\ ev = NoEval
    /\ calc = NoCalc

Calculo(max_desc, uf_api, txt) ==
    /\ calc = NoCalc
    /\ calc' = [kind |-> "calc", max_desc |-> max_desc, uf_api |-> uf_api, txt |-> txt,
                precio_uf |-> parse_num(txt.precio, 0),
                uf_valor |-> parse_num(txt.uf, uf_api * 100),
                monto |-> parse_num(txt.monto, 0),
                cantidad |-> Cantidad(txt.cant),
                res |-> CalcularTextos(max_desc, uf_api, txt)]
    /\ UNCHANGED <<now, nowFrac, nTicks, hmac, minted, user_admin, session_state, vr, ev>>

NextCalc ==
    \E max_desc \in CeilingValues, uf_api \in UfApiValues,
       uf \in UfTexts, precio \in PrecioTexts, monto \in MontoTexts, cant \in CantTexts :
        Calculo(max_desc, uf_api,
                [uf |-> uf, precio |-> precio, monto |-> monto, cant |-> cant])

SpecCalc == InitCalc /\ [][NextCalc]_vars

(***************************************************************************)
(* One page evaluation: the script from top to bottom.                     *)
(***************************************************************************)
ADMIN_PASSCODE == "jefe"
CodeInputs == {"", "x", ADMIN_PASSCODE}

\* Mutant of Frac: the percentage divided by 90 instead of 100.
FracWrongDivisor(pct) == (pct * 1000) \div (PctDivisor - 10)

\* pct / 100.0 as a fraction in thousandths.
Frac(pct) == (pct * 1000) \div PctDivisor

\* Lines 72-74: the role is resolved once per session.
SessionInit(ss, admin) ==
    IF "is_manager" \in DOMAIN ss THEN ss ELSE SetKey(ss, "is_manager", admin)

\* Lines 77-83: the passcode box, shown to a caller who is not manager.
PasscodeShown(ss) == ~ss.is_manager /\ ADMIN_PASSCODE # None

Unlock(ss, code) ==
    IF PasscodeShown(ss) /\ code # "" /\ code = ADMIN_PASSCODE
    THEN SetKey(ss, "is_manager", TRUE)
    ELSE ss

\* Lines 130-143: token_param is the ?flash parameter, <<>> when absent or
\* empty; res is verify_flash_token's answer.
NoResult == [ok |-> FALSE, payload |-> None]

\* Mutant of ApplyToken: a token that fails verification clears the slot.
ApplyTokenClearsOnFailure(ss, token_param, res) ==
    IF token_param # <<>> /\ res.ok
    THEN SetKey(SetKey(ss, "flash_until", res.payload.exp),
                "flash_topes",
                ("Nivel 1" :> (res.payload.n1 * 1000) \div PctDivisor)
                    @@ ("Telecierre" :> (res.payload.tel * 1000) \div PctDivisor))
    ELSE IF token_param # <<>>
         THEN [k \in DOMAIN ss \ {"flash_until", "flash_topes"} |-> ss[k]]
         ELSE ss

ApplyToken(ss, token_param, res) ==
    IF token_param # <<>> /\ res.ok
    THEN SetKey(SetKey(ss, "flash_until", res.payload.exp),
                "flash_topes",
                ("Nivel 1" :> Frac(res.payload.n1))
                    @@ ("Telecierre" :> Frac(res.payload.tel)))
    ELSE ss

Mensaje(token_param, res) ==
    IF token_param = <<>> THEN "none"
    ELSE IF res.ok THEN "success" ELSE "warning"

\* Lines 145-146.
flash_active(ss, t, tf) == GreaterThanTime(Get(ss, "flash_until", 0), t, tf)

\* Mutant of ResolveTopes: the stored token is looked at before the manager's
\* direct edits.
ResolveTopesTokenFirst(ss, is_manager, activar_flash, tops, t, tf) ==
    IF GreaterThanTime(Get(ss, "flash_until", 0), t, tf)
    THEN Update(TOPES_BASE, Get(ss, "flash_topes", EmptyDict))
    ELSE IF activar_flash /\ is_manager
         THEN ("Nivel 1" :> (tops[1] * 1000) \div PctDivisor)
                @@ ("Telecierre" :> (tops[2] * 1000) \div PctDivisor)
         ELSE TOPES_BASE

\* Lines 161-194: TOPES_ACTIVOS.  tops is <<top_n1, top_tel>>, the two number
\* inputs of the manager's branch.
ResolveTopes(ss, is_manager, activar_flash, tops, t, tf) ==
    IF activar_flash /\ is_manager
    THEN ("Nivel 1" :> Frac(tops[1])) @@ ("Telecierre" :> Frac(tops[2]))
    ELSE IF flash_active(ss, t, tf)
         THEN Update(TOPES_BASE, Get(ss, "flash_topes", EmptyDict))
         ELSE TOPES_BASE

\* The inputs of the page.  The number inputs accept 0..MaxPct.
TopeDefaults == <<30, 50>>
DirectEdits == { TopeDefaults, <<MaxPct, 0>> }
NoGen == [hours |-> 0]
GenChoices == { [hours |-> 1, pcts |-> <<0, MaxPct>>, tag |-> g] :
                   g \in {TagWith(1, 65), TagWith(16, 46)} }
PageTexts == [uf |-> <<51, 57, 48, 48, 48>>, precio |-> <<49, 44, 52, 48>>,
              monto |-> <<50, 48, 48, 48, 48>>, cant |-> <<49>>]
Garbage == <<33, 33>>

\* What a caller may put in ?flash: nothing, a minted link as it is or with
\* one character of its payload changed, or text that is no token.
PresentedTokens ==
    {<<>>, Garbage}
        \cup {m.token : m \in minted}
        \cup {[m.token EXCEPT ![20] = B64Char((B64Val(m.token[20]) + 1) % 64)] : m \in minted}

\* Lines 197-204: the link panel; gen is NoGen when the button is not pressed.
PageMint(gen, t) ==
    IF gen = NoGen THEN UNCHANGED <<hmac, minted>>
    ELSE LET m == make_flash_token(gen.hours, gen.pcts[1], gen.pcts[2], t, gen.tag) IN
         /\ Cardinality(minted) < MaxMints
         /\ gen.tag \in FreshTags(m.msg)
         /\ minted' = minted \cup {[m EXCEPT !.atFrac = nowFrac]}
         /\ hmac' = HmacSign(m.msg, m.sig)

\* Lines 159-211 and the computation, once the token has been handled: ss is
\* the session after lines 72-143, t the clock at the flash_active check.
PageRest(ss, token_param, res, activar_flash, tops, t, gen, nivel, topes) ==
    /\ session_state' = ss
    /\ PageMint(gen, t)
    /\ ev' = [kind |-> "page",
              token_given |-> token_param # <<>>,
              ok |-> res.ok,
              payload |-> res.payload,
              mensaje |-> Mensaje(token_param, res),
              is_manager |-> ss.is_manager,
              activar_flash |-> activar_flash,
              tops |-> tops,
              t_verify |-> now,
              t_active |-> t,
              TOPES_ACTIVOS |-> topes,
              nivel |-> nivel,
              max_desc |-> topes[nivel],
              tot |-> CalcularTextos(topes[nivel], UF_FALLBACK, PageTexts)]

PageTopes(ss, token_param, res, activar_flash, tops, t, gen, nivel) ==
    PageRest(ss, token_param, res, activar_flash, tops, t, gen, nivel,
             ResolveTopes(ss, ss.is_manager, activar_flash, tops, t, nowFrac))

\* was_manager: the role at the start of the evaluation.  The toggle is
\* disabled, and the number inputs and the link panel are absent, until an
\* evaluation has rendered them for a manager.
PageToken(ss, was_manager, token_param, res) ==
    \E activar_flash \in (IF was_manager THEN BOOLEAN ELSE {FALSE}),
       d \in {0, 1}, nivel \in Niveles :
      \E tops \in (IF activar_flash THEN DirectEdits ELSE {TopeDefaults}),
         gen \in (IF was_manager THEN GenChoices \cup {NoGen} ELSE {NoGen}) :
        /\ d = 1 => nTicks < MaxPageTicks
        /\ now' = now + d
        /\ nTicks' = nTicks + d
        /\ PageTopes(ApplyToken(ss, token_param, res), token_param, res,
                     activar_flash, tops, now + d, gen, nivel)
        /\ UNCHANGED <<nowFrac, user_admin, vr, calc>>

PageVerify(ss, was_manager, token_param) ==
    PageToken(ss, was_manager, token_param,
              IF token_param = <<>> THEN NoResult
              ELSE verify_flash_token(token_param, now, nowFrac))

PageEval(code, token_param) ==
    /\ ev = NoEval
    /\ code # "" => PasscodeShown(SessionInit(session_state, user_admin))
    /\ PageVerify(Unlock(SessionInit(session_state, user_admin), code),
                  SessionInit(session_state, user_admin).is_manager,
                  token_param)

\* The link panel used in another session, by a manager: the signing key and
\* the clock are the process's, the links reach the callers of this session.
OtherSessionMint(gen) ==
    /\ gen # NoGen
    /\ PageMint(gen, now)
    /\ UNCHANGED <<now, nowFrac, nTicks, user_admin, session_state, vr, ev, calc>>

InitPage ==
    /\ InitCommon
    /\ user_admin \in BOOLEAN
    /\ session_state = EmptyDict
    /\ ev = NoEval
    /\ calc = NoCalc

Next ==
    \/ \E code \in CodeInputs, token_param \in PresentedTokens : PageEval(code, token_param)
    \/ \E gen \in GenChoices : OtherSessionMint(gen)
    \/ \E d \in TickSteps : Tick(d, MaxPageTicks)

Spec == InitPage /\ [][Next]_vars

(***************************************************************************)
(* Properties of the token codec (SpecToken).                              *)
(***************************************************************************)
MalformedErrors == {Incorrect_padding, Invalid_base64, Unpack_error, JsonError.err}

\* vr is a verification of the minted token, unchanged, made strictly before
\* its expiry.
VerifiedBeforeExpiry ==
    /\ vr.kind = "verify"
    /\ GreaterThanTime(vr.src.payload.exp, vr.t, vr.tf)

PayloadAsMinted(res, m) ==
    /\ res.ok
    /\ res.payload.n1 = m.payload.n1
    /\ res.payload.tel = m.payload.tel
    /\ res.payload.exp = m.payload.exp

\* C1: a minted token presented before its expiry is accepted, with the
\* minted n1, tel and exp, whatever value its tag has.
C1_RoundTrip == VerifiedBeforeExpiry => PayloadAsMinted(vr.res, vr.src)

\* The part of C1 that the code keeps: tags without the byte '.'.
TagHasSeparator(m) == \E i \in 1..DigestSize : m.sig[i] = 46

C1_RoundTripNoSeparator ==
    (VerifiedBeforeExpiry /\ ~TagHasSeparator(vr.src)) => PayloadAsMinted(vr.res, vr.src)

C1_SeparatorRejected ==
    (vr.kind = "verify" /\ TagHasSeparator(vr.src))
        => (~vr.res.ok /\ vr.res.payload = Firma_invalida)

\* vr is a verification of the minted token with one character of its
\* payload portion or of its signature portion changed.
TamperedInPortion ==
    /\ vr.kind = "tamper"
    /\ vr.pos \in PayloadChars(vr.src) \cup SignatureChars(vr.src)

\* C2: a token with one character of its payload or signature portion
\* changed is rejected as a bad signature or as malformed.
C2_TamperRejected ==
    TamperedInPortion
        => (~vr.res.ok /\ vr.res.payload \in {Firma_invalida} \cup MalformedErrors)

\* The part of C2 that the code keeps: no presented token, changed or not,
\* is accepted with a payload other than the minted one.
C2_NoAlteredPayload ==
    (vr.kind # "none" /\ vr.res.ok) => PayloadAsMinted(vr.res, vr.src)

\* C3: the minted token is accepted one second before mint_time + h*3600,
\* rejected as expired one second after it, and rejected as expired exactly
\* when exp < now.
C3_Expiry ==
    vr.kind = "verify" =>
        /\ (vr.t = vr.src.at + vr.src.hours * SecondsPerHour - 1) => vr.res.ok
        /\ (vr.t = vr.src.at + vr.src.hours * SecondsPerHour + 1)
              => (~vr.res.ok /\ vr.res.payload = Token_vencido)
        /\ (~vr.res.ok /\ vr.res.payload = Token_vencido)
              <=> LessThanTime(vr.src.payload.exp, vr.t, vr.tf)

\* The part of C3 that the code keeps: tags without the byte '.'.
C3_ExpiryNoSeparator == (vr.kind = "verify" /\ TagHasSeparator(vr.src)) \/ C3_Expiry

(***************************************************************************)
(* Properties of the computation (SpecCalc).                               *)
(***************************************************************************)
\* C7: the applied discount is the requested amount capped at the ceiling
\* amount subtotal * max_desc, and excede_tope tells requested > ceiling.
C7_DiscountCap ==
    calc.kind = "calc" =>
        LET tope == MulDiv(calc.res.subtotal, calc.max_desc, 1000)
            req == calc.monto * 100
        IN /\ req >= tope => calc.res.monto_aplicado = tope
           /\ req < tope => calc.res.monto_aplicado = req
           /\ calc.res.excede_tope <=> req > tope

C7_Witness ==
    /\ calc.kind = "calc"
    /\ calc.res.excede_tope
    /\ calc.res.monto_tope > 0
    /\ calc.res.monto_aplicado = calc.res.monto_tope

\* The worked example: 'Nivel 1' at its base ceiling, 1,42 UF, rate 39000,
\* quantity 1, requested 8000.
WorkedExample ==
    /\ calc.kind = "calc"
    /\ calc.max_desc = TOPES_BASE["Nivel 1"]
    /\ calc.txt = [uf |-> <<51, 57, 48, 48, 48>>, precio |-> <<49, 44, 52, 50>>,
                   monto |-> <<56, 48, 48, 48>>, cant |-> <<49>>]

\* C8 as stated: subtotal 55380, ceiling amount 13845, not flagged,
\* applied 8000, total 47380.
C8_ExampleAsStated ==
    WorkedExample =>
        /\ calc.res.subtotal = 553800000
        /\ calc.res.monto_tope = 138450000
        /\ ~calc.res.excede_tope
        /\ calc.res.monto_aplicado = 80000000
        /\ calc.res.TotalCLP = 473800000

\* C8 as the program computes it, the subtotal including 19% IVA: subtotal
\* 65902.2, ceiling amount 16475.55, not flagged, applied 8000, total 57902.2.
C8_ExampleWithIva ==
    WorkedExample =>
        /\ calc.res.subtotal = 659022000
        /\ calc.res.monto_tope = 164755500
        /\ ~calc.res.excede_tope
        /\ calc.res.monto_aplicado = 80000000
        /\ calc.res.TotalCLP = 579022000

C8_Witness == WorkedExample /\ calc.precio_uf = 142 /\ calc.uf_valor = 3900000

\* C9: for non-negative price and rate, a quantity >= 1, a ceiling in
\* [0, 0.8] and any requested discount, 0 <= monto_aplicado <= monto_tope and
\* 0 <= TotalCLP <= subtotal.
C9_ResultBounds ==
    (calc.kind = "calc" /\ calc.precio_uf >= 0 /\ calc.uf_valor >= 0 /\ calc.cantidad >= 1
        /\ calc.max_desc >= 0 /\ calc.max_desc <= 800)
    => /\ 0 <= calc.res.monto_aplicado
       /\ calc.res.monto_aplicado <= calc.res.monto_tope
       /\ 0 <= calc.res.TotalCLP
       /\ calc.res.TotalCLP <= calc.res.subtotal

\* The part of C9 that the code keeps: requested discounts >= 0.
C9_ResultBoundsNonNegative == (calc.kind = "calc" /\ calc.monto < 0) \/ C9_ResultBounds

(***************************************************************************)
(* Properties of the page evaluation (Spec).                               *)
(***************************************************************************)
\* C4: the active ceilings of every page evaluation, and the overrides kept
\* in the session, are in [0, 0.8] for both tiers.
C4_CeilingBound ==
    /\ ev.kind = "page" =>
          /\ \A n \in Niveles : ev.TOPES_ACTIVOS[n] >= 0 /\ ev.TOPES_ACTIVOS[n] <= 800
          /\ ev.max_desc >= 0 /\ ev.max_desc <= 800
    /\ "flash_topes" \in DOMAIN session_state =>
          \A n \in Niveles :
              session_state.flash_topes[n] >= 0 /\ session_state.flash_topes[n] <= 800

\* A token's override reaches the upper end of the range.
C4_Witness ==
    /\ ev.kind = "page"
    /\ ev.token_given /\ ev.ok /\ ~ev.activar_flash
    /\ ev.TOPES_ACTIVOS["Telecierre"] = 800
    /\ ev.TOPES_ACTIVOS["Nivel 1"] = 0

FlashSlot(ss) == [k \in DOMAIN ss \cap {"flash_until", "flash_topes"} |-> ss[k]]

\* C5: a page evaluation whose ?flash token fails verification shows the
\* warning and leaves the session's override slot as it was.
C5_FailedTokenKeepsSlot ==
    [][(ev'.kind = "page" /\ ev'.token_given /\ ~ev'.ok)
         => (ev'.mensaje = "warning" /\ FlashSlot(session_state') = FlashSlot(session_state))]_vars

\* An expired token is refused while an override is stored in the session.
C5_Witness ==
    /\ ev.kind = "page"
    /\ ev.token_given /\ ~ev.ok
    /\ ev.payload = Token_vencido
    /\ ev.mensaje = "warning"
    /\ "flash_until" \in DOMAIN session_state

\* The overrides of a minted link, as fractions in thousandths.
Overrides(payload) == ("Nivel 1" :> payload.n1 * 10) @@ ("Telecierre" :> payload.tel * 10)

SlotUnexpired(t) ==
    "flash_until" \in DOMAIN session_state /\ session_state.flash_until > t

\* C6: the ceilings are the manager's direct edits when a manager has the
\* toggle on; otherwise the stored token's overrides when flash_until is later
\* than the clock; otherwise the base ceilings.  A caller who is not manager
\* has ceilings other than base only from a minted, unexpired link.
C6_Resolution ==
    ev.kind = "page" =>
        /\ IF ev.is_manager /\ ev.activar_flash
           THEN ev.TOPES_ACTIVOS
                  = ("Nivel 1" :> ev.tops[1] * 10) @@ ("Telecierre" :> ev.tops[2] * 10)
           ELSE IF SlotUnexpired(ev.t_active)
                THEN ev.TOPES_ACTIVOS = session_state.flash_topes
                ELSE ev.TOPES_ACTIVOS = TOPES_BASE
        /\ (~ev.is_manager /\ ev.TOPES_ACTIVOS # TOPES_BASE)
             => /\ SlotUnexpired(ev.t_active)
                /\ \E m \in minted :
                      /\ m.payload.exp = session_state.flash_until
                      /\ ev.TOPES_ACTIVOS = Overrides(m.payload)

\* A manager with the toggle on, an accepted and unexpired token in the
\* session, and ceilings that are the direct edits, not the token's.
C6_Witness ==
    /\ ev.kind = "page"
    /\ ev.is_manager /\ ev.activar_flash
    /\ ev.token_given /\ ev.ok
    /\ SlotUnexpired(ev.t_active)
    /\ ev.TOPES_ACTIVOS # session_state.flash_topes

\* The token of this evaluation was accepted and the manager's branch was
\* not taken.
AcceptedNoDirectEdit ==
    /\ ev.kind = "page"
    /\ ev.token_given /\ ev.ok
    /\ ~(ev.activar_flash /\ ev.is_manager)

\* C10 as stated: whenever the token is accepted and the manager's branch is
\* not taken, the ceilings of that evaluation are the token's overrides.
C10_AcceptedApplied ==
    AcceptedNoDirectEdit => ev.TOPES_ACTIVOS = Overrides(ev.payload)

\* C10, the part that holds: verify_flash_token rejects with exp < now and
\* flash_active asks for exp > now at its own reading of the clock, so the
\* overrides apply when the clock at the flash_active check is still before
\* exp, and the base ceilings are used otherwise.
C10_AcceptedAppliedUnlessExpired ==
    AcceptedNoDirectEdit =>
        IF GreaterThanTime(ev.payload.exp, ev.t_active, nowFrac)
        THEN ev.TOPES_ACTIVOS = Overrides(ev.payload)
        ELSE ev.TOPES_ACTIVOS = TOPES_BASE

C10_Witness ==
    /\ AcceptedNoDirectEdit
    /\ ~ev.is_manager
    /\ ev.payload.exp > ev.t_active
    /\ ev.TOPES_ACTIVOS = Overrides(ev.payload)
    /\ ev.TOPES_ACTIVOS # TOPES_BASE

\* Accepted at the last moment, with the base ceilings in force.
C10_AcceptedButBase ==
    /\ AcceptedNoDirectEdit
    /\ ev.TOPES_ACTIVOS = TOPES_BASE

=============================================================================
